---- MODULE Spec2Model ----
(***************************************************************************)
(* CPU scheduler simulator (minsubak/cpu_scheduler): the tick loops of     *)
(* FCFS (FCFS.h), SJF (SJF.h) and RR (RR.h) over a batch of Process        *)
(* records (process.h).                                                    *)
(*                                                                         *)
(* queue.h and compare.h are not part of the sources at hand; the queue    *)
(* operations (enqueue/dequeue/peek/is_empty_q/sort and SJF's              *)
(* timeout/dispatch/check) and compare_for_arrival follow spec.md 4.1:     *)
(* FIFO queue, stable sort, peek/dequeue of an empty queue fail with       *)
(* EmptyQueue (a fatal error that ends the run).                           *)
(*                                                                         *)
(* One step of the model is one iteration of a policy's while loop.        *)
(* The field prioity is carried by the code but never read; it is left     *)
(* out of the records.                                                     *)
(***************************************************************************)
EXTENDS Integers, Sequences, FiniteSets

\* ------------------------------------------------------------------ bounds
MaxN == 2

MaxArrival == 2

MaxBurst == 3

MaxQ == 2

\* values of RR's third parameter t (documented as the total burst time)
TSet == 1..(MaxBurst + 1)

VARIABLES
    policy,            \* which of FCFS / SJF / RR is running
    p,                 \* the caller's array of Process, in input order
    n,                 \* process count
    t,                 \* RR's third parameter
    q,                 \* RR's fourth parameter (time quantum)
    pre,               \* queue of processes that have not arrived
    ready,             \* ready queue
    temp,              \* Process *temp: <<>> is NULL, <<r>> points at r
    time,              \* time / time_flow
    terminate,         \* number of process terminated
    result,            \* result[] / result_sjf[], the records written so far
    total_turnaround,
    total_waiting,
    total_response,
    gantt,             \* RR: processIDs written to gantt[0..t-1]
    pc,                \* "loop", "done", "EmptyQueue", "NullDeref", "GanttOverflow",
                       \* "ResultOverflow"
    log                \* the events the CHECK printf lines report, in order

vars == <<policy, p, n, t, q, pre, ready, temp, time, terminate, result,
          total_turnaround, total_waiting, total_response, gantt, pc, log>>

NULL == <<>>

RECURSIVE SumBurst(_)
SumBurst(procs) ==
    IF procs = <<>> THEN 0 ELSE Head(procs).burst + SumBurst(Tail(procs))

RECURSIVE LastArrival(_)
LastArrival(procs) ==
    IF procs = <<>> THEN 0
    ELSE LET m == LastArrival(Tail(procs))
         IN  IF Head(procs).arrival > m THEN Head(procs).arrival ELSE m

\* the bound on the clock: a run that terminates has done so by the last
\* arrival plus the sum of the bursts, so it is never still looping here
MaxTime == LastArrival(p) + SumBurst(p) + 2

\* ------------------------------------------------------------ process.h
\* a Process as the caller hands it over: remain = burst; timeout is read by
\* RR before RR ever writes it, so its value is the caller's (to0)
Process(id, arr, bur, to0) ==
    [processID |-> id, arrival |-> arr, burst |-> bur, remain |-> bur,
     waiting |-> 0, timeout |-> to0, execute |-> 0,
     turnaround |-> 0, response |-> 0]

\* the turnaround column print_result and RR's result loop print
ReportedTurnaround(r) == r.execute + r.waiting

\* ------------------------------------------------- queue.h (from spec 4.1)
is_empty_q(qu) == qu = <<>>

peek(qu) == Head(qu)

enqueue(qu, r) == Append(qu, r)

\* the queue that is left after dequeue; the record handed out is peek(qu)
dequeue(qu) == Tail(qu)

compare_for_arrival(a, b) ==
    IF a.arrival > b.arrival THEN 1 ELSE IF a.arrival < b.arrival THEN -1 ELSE 0

\* ---------------------------------------------------------------- SJF.h
compare_for_SJF(A, B) ==
    (IF A.burst > B.burst THEN 1 ELSE 0) - (IF A.burst < B.burst THEN 1 ELSE 0)

\* ------------------------------------------------- queue.h (from spec 4.1)
\* the call of the comparator that sort was handed (a function pointer)
Compare(cmp, a, b) ==
    IF cmp = "compare_for_SJF" THEN compare_for_SJF(a, b)
                               ELSE compare_for_arrival(a, b)

\* stable sort: equal records keep their relative order
sort(qu, cmp) ==
    LET before(j, i) == \/ Compare(cmp, qu[j], qu[i]) < 0
                        \/ (Compare(cmp, qu[j], qu[i]) = 0 /\ j < i)
        rank(i) == Cardinality({j \in 1..Len(qu) : before(j, i)}) + 1
    IN  [k \in 1..Len(qu) |-> qu[CHOOSE i \in 1..Len(qu) : rank(i) = k]]

\* ------------------------------------------------------------- the log
\* rem: the remaining time of the record at the event
Ev(kind, r, at) == [k |-> kind, id |-> r.processID, at |-> at, rem |-> r.remain]


\* the loop's local state as one record, handed from statement to statement;
\* a statement is skipped once the run has ended (pc # "loop")
Cur ==
    [pre |-> pre, ready |-> ready, temp |-> temp, time |-> time,
     terminate |-> terminate, result |-> result, tt |-> total_turnaround,
     tw |-> total_waiting, tr |-> total_response, gantt |-> gantt,
     pc |-> pc, log |-> log]

Store(s) ==
    /\ pre' = s.pre
    /\ ready' = s.ready
    /\ temp' = s.temp
    /\ time' = s.time
    /\ terminate' = s.terminate
    /\ result' = s.result
    /\ total_turnaround' = s.tt
    /\ total_waiting' = s.tw
    /\ total_response' = s.tr
    /\ gantt' = s.gantt
    /\ pc' = s.pc
    /\ log' = s.log
    /\ UNCHANGED <<policy, p, n, t, q>>

\* ------------------------------------------------- the result arrays
\* Process result_sjf[5] (SJF.h), Process result[5] (RR.h)
ResultCapacity == 5

\* the iteration from state a to state b wrote a record at an index outside
\* the array. FCFS writes to result[MAX]; MAX is set in queue.h, so no
\* capacity is known for it
ResultOutOfBounds(a, b) ==
    /\ policy \in {"SJF", "RR"}
    /\ b.terminate > a.terminate
    /\ a.terminate >= ResultCapacity

\* result[terminate++] = *temp past the end of the array is undefined: the
\* run either goes on (crash = FALSE) or ends there
ResultWrite(a, b, crash) ==
    IF ResultOutOfBounds(a, b) /\ crash THEN [b EXCEPT !.pc = "ResultOverflow"]
    ELSE b

\* --------------------------------------------------------------- FCFS.h
\* if(!is_empty_q(&pre)) if(peek(&pre).arrival == time): the test of the
\* arrival block (the same text in RR.h and, with check(), in SJF.h)
Arrives(s) == ~is_empty_q(s.pre) /\ peek(s.pre).arrival = s.time

\* a slip: the arriving record is copied with peek and left in pre
AdmitArrivalCopy(s) ==
    IF s.pc = "loop" /\ Arrives(s)
    THEN [s EXCEPT !.ready = enqueue(s.ready, peek(s.pre)),
                   !.log = Append(s.log, Ev("arrival", peek(s.pre), s.time))]
    ELSE s

\* insert prcoess into the ready queue in order of arrive
AdmitArrival(s) ==
    IF s.pc = "loop" /\ Arrives(s)
    THEN [s EXCEPT !.ready = enqueue(s.ready, peek(s.pre)),
                   !.pre = dequeue(s.pre),
                   !.log = Append(s.log, Ev("arrival", peek(s.pre), s.time))]
    ELSE s

\* temp->waiting = time - temp->arrival; temp->execute = 0
DispatchedFCFS(r, now) == [r EXCEPT !.waiting = now - r.arrival, !.execute = 0]

\* dispatch new PCB: peek(&ready) is evaluated first, whatever temp is
DispatchFCFS(s) ==
    IF s.pc # "loop" THEN s
    ELSE IF is_empty_q(s.ready) THEN [s EXCEPT !.pc = "EmptyQueue"]
    ELSE IF peek(s.ready).arrival <= s.time /\ s.temp = NULL
    THEN LET r == DispatchedFCFS(peek(s.ready), s.time)
         IN  [s EXCEPT !.temp = <<r>>,
                       !.ready = dequeue(s.ready),
                       !.tw = s.tw + r.waiting,
                       !.log = Append(s.log, Ev("dispatch", r, s.time))]
    ELSE s

\* temp->remain--; temp->execute++
Executed(r) == [r EXCEPT !.remain = r.remain - 1, !.execute = r.execute + 1]

\* a slip: the whole burst is added where the time executed since the
\* dispatch is meant
TurnaroundTermBurst(r) == r.burst + r.waiting

\* total_turnaround += temp->execute + temp->waiting (FCFS.h, RR.h)
TurnaroundTerm(r) == r.execute + r.waiting

\* time++; scheduler task progress; terminate present PCB
ProgressFCFS(s) ==
    IF s.pc # "loop" THEN s
    ELSE IF s.temp = NULL THEN [s EXCEPT !.time = s.time + 1]
    ELSE LET r == Executed(s.temp[1])
         IN  IF r.remain = 0
             THEN [s EXCEPT !.time = s.time + 1,
                            !.tt = s.tt + TurnaroundTerm(r),
                            !.tr = s.tr + r.waiting,
                            !.result = Append(s.result, r),
                            !.temp = NULL,
                            !.terminate = s.terminate + 1,
                            !.log = Append(s.log, Ev("terminate", r, s.time + 1))]
             ELSE [s EXCEPT !.time = s.time + 1, !.temp = <<r>>]

\* one iteration of while(terminate < n) in FCFS
FCFSTick ==
    /\ policy = "FCFS"
    /\ pc = "loop"
    /\ terminate < n
    /\ time < MaxTime
    /\ Store(ProgressFCFS(DispatchFCFS(AdmitArrival(Cur))))

\* ---------------------------------------------------------------- SJF.h
\* timeout(&ready, *dispatch(&pre)); sort(&ready, compare_for_SJF)
AdmitArrivalSJF(s) ==
    IF s.pc = "loop" /\ Arrives(s)
    THEN [s EXCEPT !.ready = sort(enqueue(s.ready, peek(s.pre)), "compare_for_SJF"),
                   !.pre = dequeue(s.pre),
                   !.log = Append(s.log, Ev("arrival", peek(s.pre), s.time))]
    ELSE s

\* temp->waiting = time_flow - temp->arrival
DispatchedSJF(r, now) == [r EXCEPT !.waiting = now - r.arrival]

\* dispatch new PCB, under if(!is_empty_q(&ready))
DispatchSJF(s) ==
    IF s.pc = "loop" /\ ~is_empty_q(s.ready)
       /\ peek(s.ready).arrival <= s.time /\ s.temp = NULL
    THEN LET r == DispatchedSJF(peek(s.ready), s.time)
         IN  [s EXCEPT !.temp = <<r>>,
                       !.ready = dequeue(s.ready),
                       !.tw = s.tw + r.waiting,
                       !.log = Append(s.log, Ev("dispatch", r, s.time))]
    ELSE s

\* temp->turnaround = temp->burst + temp->waiting; temp->response = temp->waiting
TerminatedSJF(r) ==
    [r EXCEPT !.turnaround = r.burst + r.waiting, !.response = r.waiting]

\* time_flow++; temp->remain--; terminate present PCB
ProgressSJF(s) ==
    IF s.pc # "loop" THEN s
    ELSE IF s.temp = NULL THEN [s EXCEPT !.time = s.time + 1]
    ELSE LET r == [s.temp[1] EXCEPT !.remain = s.temp[1].remain - 1]
             d == TerminatedSJF(r)
         IN  IF r.remain = 0
             THEN [s EXCEPT !.time = s.time + 1,
                            !.tt = s.tt + d.turnaround,
                            !.tr = s.tr + d.response,
                            !.result = Append(s.result, d),
                            !.temp = NULL,
                            !.terminate = s.terminate + 1,
                            !.log = Append(s.log, Ev("terminate", d, s.time + 1))]
             ELSE [s EXCEPT !.time = s.time + 1, !.temp = <<r>>]

\* one iteration of while(terminate < n) in SJF
SJFTick ==
    /\ policy = "SJF"
    /\ pc = "loop"
    /\ terminate < n
    /\ time < MaxTime
    /\ LET a == DispatchSJF(AdmitArrivalSJF(Cur))
           b == ProgressSJF(a)
       IN  \E crash \in (IF ResultOutOfBounds(a, b) THEN BOOLEAN ELSE {FALSE}) :
               Store(ResultWrite(a, b, crash))

\* ----------------------------------------------------------------- RR.h
\* temp->waiting = time - temp->timeout; temp->execute = 0
DispatchedRR(r, now) == [r EXCEPT !.waiting = now - r.timeout, !.execute = 0]

\* a variant: the dispatch block under if(!is_empty_q(&ready)), as in SJF.h
DispatchRRGuarded(s) ==
    IF s.pc = "loop" /\ ~is_empty_q(s.ready)
       /\ peek(s.ready).arrival <= s.time /\ s.temp = NULL
    THEN LET r == DispatchedRR(peek(s.ready), s.time)
         IN  [s EXCEPT !.temp = <<r>>,
                       !.ready = dequeue(s.ready),
                       !.tw = s.tw + r.waiting,
                       !.log = Append(s.log, Ev("dispatch", r, s.time))]
    ELSE s

\* dispatch new PCB: peek(&ready) is evaluated first, whatever temp is
DispatchRR(s) ==
    IF s.pc # "loop" THEN s
    ELSE IF is_empty_q(s.ready) THEN [s EXCEPT !.pc = "EmptyQueue"]
    ELSE IF peek(s.ready).arrival <= s.time /\ s.temp = NULL
    THEN LET r == DispatchedRR(peek(s.ready), s.time)
         IN  [s EXCEPT !.temp = <<r>>,
                       !.ready = dequeue(s.ready),
                       !.tw = s.tw + r.waiting,
                       !.log = Append(s.log, Ev("dispatch", r, s.time))]
    ELSE s

\* if(temp->execute == t)
Expired(r) == r.execute = t

\* the block under if(temp->execute == t); temp is read without a NULL test
TimeoutRR(s) ==
    IF s.pc # "loop" THEN s
    ELSE IF s.temp = NULL THEN [s EXCEPT !.pc = "NullDeref"]
    ELSE IF Expired(s.temp[1])
    THEN LET old == [s.temp[1] EXCEPT !.timeout = s.time]
             rq == enqueue(s.ready, old)
             r == DispatchedRR(peek(rq), s.time)
         IN  [s EXCEPT !.tt = s.tt + TurnaroundTerm(old),
                       !.tr = s.tr + old.waiting,
                       !.ready = dequeue(rq),
                       !.temp = <<r>>,
                       !.tw = s.tw + r.waiting,
                       !.log = s.log \o <<Ev("timeout", old, s.time),
                                         Ev("dispatch", r, s.time)>>]
    ELSE s

\* gantt = malloc(sizeof(Process)*t): index time is outside the buffer
GanttOutOfBounds(s) == s.time >= t

\* gantt[time++] = *temp. A write past the end of the malloc'ed buffer is
\* undefined: the run either goes on (crash = FALSE) or ends there
GanttWrite(s, crash) ==
    IF s.pc # "loop" THEN s
    ELSE IF s.temp = NULL THEN [s EXCEPT !.pc = "NullDeref"]
    ELSE IF GanttOutOfBounds(s)
    THEN IF crash THEN [s EXCEPT !.pc = "GanttOverflow"]
                  ELSE [s EXCEPT !.time = s.time + 1]
    ELSE [s EXCEPT !.gantt = Append(s.gantt, s.temp[1].processID),
                   !.time = s.time + 1]

\* scheduler task progress; terminate present PCB (time is already advanced)
ProgressRR(s) ==
    IF s.pc # "loop" \/ s.temp = NULL THEN s
    ELSE LET r == Executed(s.temp[1])
         IN  IF r.remain = 0
             THEN [s EXCEPT !.tt = s.tt + TurnaroundTerm(r),
                            !.tr = s.tr + r.waiting,
                            !.result = Append(s.result, r),
                            !.temp = NULL,
                            !.terminate = s.terminate + 1,
                            !.log = Append(s.log, Ev("terminate", r, s.time))]
             ELSE [s EXCEPT !.temp = <<r>>]

\* one iteration of while(terminate < n) in RR
RRTick ==
    /\ policy = "RR"
    /\ pc = "loop"
    /\ terminate < n
    /\ time < MaxTime
    /\ LET s == TimeoutRR(DispatchRR(AdmitArrival(Cur)))
       IN  \E crash \in (IF s.pc = "loop" /\ GanttOutOfBounds(s)
                         THEN BOOLEAN ELSE {FALSE}) :
               LET a == GanttWrite(s, crash)
                   b == ProgressRR(a)
               IN  \E rcrash \in (IF ResultOutOfBounds(a, b)
                                  THEN BOOLEAN ELSE {FALSE}) :
                       Store(ResultWrite(a, b, rcrash))

\* the loop condition fails: the results are printed and the function returns
Finish ==
    /\ pc = "loop"
    /\ terminate >= n
    /\ pc' = "done"
    /\ UNCHANGED <<policy, p, n, t, q, pre, ready, temp, time, terminate, result,
                   total_turnaround, total_waiting, total_response, gantt, log>>


\* ------------------------------------------------------- the three calls
\* the state when the while loop is reached: the n processes are in pre,
\* sorted by arrival in FCFS and RR, in input order in SJF
Loaded(pol, procs) ==
    IF pol = "SJF" THEN procs ELSE sort(procs, "compare_for_arrival")

\* the values the caller may have left in Process.timeout: 0 or the arrival
Timeout0(mode, arr) == IF mode = "arrival" THEN arr ELSE 0

\* the state at the while loop of a call pol(procs, Len(procs), tp, qp)
Start(pol, procs, tp, qp) ==
    /\ policy = pol
    /\ n = Len(procs)
    /\ p = procs
    /\ t = tp
    /\ q = qp
    /\ pre = Loaded(pol, procs)
    /\ ready = <<>>
    /\ temp = NULL
    /\ time = 0
    /\ terminate = 0
    /\ result = <<>>
    /\ total_turnaround = 0
    /\ total_waiting = 0
    /\ total_response = 0
    /\ gantt = <<>>
    /\ pc = "loop"
    /\ log = <<>>

\* the calls with process counts Ns, arrival times Arrs, burst times Burs and
\* quanta Qs
Calls(Ns, Arrs, Burs, Qs) ==
    \E k \in Ns :
    \E arr \in [1..k -> Arrs], bur \in [1..k -> Burs] :
    \E pol \in {"FCFS", "SJF", "RR"} :
    \E tp \in (IF pol = "RR" THEN TSet ELSE {0}) :
    \E qp \in (IF pol = "RR" THEN Qs ELSE {0}) :
    \E mode \in (IF pol = "RR" THEN {"zero", "arrival"} ELSE {"zero"}) :
        Start(pol,
              [i \in 1..k |-> Process(i, arr[i], bur[i], Timeout0(mode, arr[i]))],
              tp, qp)

\* the calls with valid input: n >= 1, arrival >= 0, burst > 0, quantum > 0
Init == Calls(1..MaxN, 0..MaxArrival, 1..MaxBurst, 1..MaxQ)

Next == FCFSTick \/ SJFTick \/ RRTick \/ Finish

Spec == Init /\ [][Next]_vars

\* the calls in which the caller has set every Process.timeout to the
\* arrival time, the value RR's first dispatch subtracts from the clock
InitArrival ==
    /\ Init
    /\ policy = "RR" => \A i \in 1..n : p[i].timeout = p[i].arrival

SpecArrival == InitArrival /\ [][Next]_vars

\* every call, the invalid ones included: n = 0, a burst of 0, an arrival
\* of -1, a quantum of 0. None of FCFS, SJF, RR tests its arguments
InitAny == Calls(0..MaxN, (-1)..MaxArrival, 0..MaxBurst, 0..MaxQ)

SpecAny == InitAny /\ [][Next]_vars

\* the batch of the scenarios of spec.md 8: P0(arrival 0, burst 5),
\* P1(arrival 1, burst 3), P2(arrival 2, burst 8), here with processID 1, 2, 3
ScenarioBatch(mode) ==
    <<Process(1, 0, 5, Timeout0(mode, 0)),
      Process(2, 1, 3, Timeout0(mode, 1)),
      Process(3, 2, 8, Timeout0(mode, 2))>>

\* the calls of the three policies on that batch
InitScenario ==
    \E pol \in {"FCFS", "SJF", "RR"} :
    \E tp \in (IF pol = "RR" THEN TSet \cup {SumBurst(ScenarioBatch("zero"))} ELSE {0}) :
    \E qp \in (IF pol = "RR" THEN 1..MaxQ ELSE {0}) :
    \E mode \in (IF pol = "RR" THEN {"zero", "arrival"} ELSE {"zero"}) :
        Start(pol, ScenarioBatch(mode), tp, qp)

SpecScenario == InitScenario /\ [][Next]_vars

\* batches of up to one process more than the result arrays hold: process i
\* arrives at tick i - 1 with burst 1, so that every policy serves them all
InitMany ==
    \E k \in 1..(ResultCapacity + 1) :
    \E pol \in {"FCFS", "SJF", "RR"} :
    \E qp \in (IF pol = "RR" THEN 1..MaxQ ELSE {0}) :
    \E mode \in (IF pol = "RR" THEN {"zero", "arrival"} ELSE {"zero"}) :
        Start(pol,
              [i \in 1..k |-> Process(i, i - 1, 1, Timeout0(mode, i - 1))],
              IF pol = "RR" THEN k ELSE 0, qp)

SpecMany == InitMany /\ [][Next]_vars

\* ------------------------------------------------ vocabulary of the claims
\* no step is left to take: the function has returned (done), the run was
\* aborted, or the loop is still running at MaxTime, a clock value that no
\* run that terminates reaches inside the loop
Stopped == pc # "loop" \/ (terminate < n /\ time >= MaxTime)

Ids(qu) == [i \in 1..Len(qu) |-> qu[i].processID]

\* positions in the log of the events of one kind of one process
EventsOf(kind, id) == {i \in 1..Len(log) : log[i].k = kind /\ log[i].id = id}

Completed(id) == EventsOf("terminate", id) # {}

Min(S) == CHOOSE x \in S : \A y \in S : x <= y

Max(S) == CHOOSE x \in S : \A y \in S : x >= y

\* the clock value at which the process was written to the results
CompletionTime(id) == log[Min(EventsOf("terminate", id))].at

\* the position in the log of the last entry of process id into the ready
\* queue (by arrival or by timeout) before position i
LastReadyEntry(id, i) ==
    Max({j \in 1..(i - 1) : log[j].id = id /\ log[j].k \in {"arrival", "timeout"}})

\* the turnaround time reported for a finished record
Reported(r) == IF policy = "SJF" THEN r.turnaround ELSE ReportedTurnaround(r)

RECURSIVE SumResponse(_)
\* the sum over processes 1..k of (first dispatch - arrival)
SumResponse(k) ==
    IF k = 0 THEN 0
    ELSE log[Min(EventsOf("dispatch", k))].at - p[k].arrival + SumResponse(k - 1)

Preempted == \E i \in 1..Len(log) : log[i].k = "timeout"

\* ------------------------------------------------------------------ C1
\* C1: for every valid batch each policy's loop terminates with exactly n
\* records collected: a run never stops anywhere but after the loop, with
\* terminate = n.
C1_Terminates == Stopped => (pc = "done" /\ terminate = n /\ Len(result) = n)

\* ------------------------------------------------------------------ C2
\* C2: at the end of every run (FCFS, SJF, RR, preempted or not) the
\* turnaround sum equals the waiting sum plus the sum of all burst times.
C2_Conservation ==
    pc = "done" => total_turnaround = total_waiting + SumBurst(p)

\* an RR run that ended after at least one preemption and re-dispatch
C2_Witness == pc = "done" /\ policy = "RR" /\ Preempted /\ n >= 2

\* ------------------------------------------------------------------ C3
\* C3: for n = 1 every policy finishes the process with waitingTime = 0,
\* turnaroundTime = burstTime and responseTime = 0.
C3_SingleProcess ==
    (n = 1 /\ Stopped) =>
        /\ pc = "done"
        /\ Len(result) = 1
        /\ result[1].waiting = 0
        /\ Reported(result[1]) = result[1].burst
        /\ total_response = 0

\* ------------------------------------------------------------------ C4
\* C4: in FCFS the records are written to the results in the order of arrival
\* time, and of two processes with equal arrival time the one later in the
\* input completes after the one earlier in the input.
C4_FCFSOrder ==
    policy = "FCFS" =>
        /\ Ids(result) = SubSeq(Ids(sort(p, "compare_for_arrival")), 1, Len(result))
        /\ \A i, j \in 1..n :
              (i < j /\ p[i].arrival = p[j].arrival /\ Completed(i) /\ Stopped)
                  => (Completed(j) /\ CompletionTime(i) < CompletionTime(j))

\* ------------------------------------------------------------------ C5
\* C5: at every SJF dispatch at tick t the dispatched process has the minimum
\* remaining time among all processes with arrival <= t that have not
\* completed, in the ready queue or not.
C5_SJFGreedy ==
    policy = "SJF" =>
        \A i \in 1..Len(log) : log[i].k = "dispatch" =>
            \A j \in 1..n :
                (/\ p[j].arrival <= log[i].at
                 /\ \A m \in EventsOf("terminate", j) : m > i)
                    => p[j].remain >= log[i].rem

\* ------------------------------------------------------------------ C6
\* C6: in RR a process is dispatched at most (n-1)*q ticks after it entered
\* the ready queue (by arrival or by preemption).
C6_RRFairness ==
    policy = "RR" =>
        \A i \in 1..Len(log) : log[i].k = "dispatch" =>
            log[i].at - log[LastReadyEntry(log[i].id, i)].at <= (n - 1) * q

\* ------------------------------------------------------------------ C7
\* C7: in RR a process whose remaining time at dispatch is <= the quantum q
\* completes in that dispatch: it is never timed out and requeued.
C7_CompletionPrecedence ==
    policy = "RR" =>
        \A i \in 1..Len(log) : log[i].k = "timeout" =>
            LET d == Max({j \in 1..(i - 1) :
                            log[j].id = log[i].id /\ log[j].k = "dispatch"})
            IN  log[d].rem > q

\* ------------------------------------------------------------------ C8
\* C8: for every record in the results the reported turnaround equals the
\* clock at completion minus the arrival time, and equals burst + waiting.
C8_Turnaround ==
    \A i \in 1..Len(result) :
        /\ Reported(result[i]) = CompletionTime(result[i].processID) - result[i].arrival
        /\ Reported(result[i]) = result[i].burst + result[i].waiting

\* ------------------------------------------------------------------ C9
\* C9: in RR a finished record's waitingTime is the total time it spent in
\* the ready queue: completion tick - arrival - burst, also when it was
\* dispatched more than once.
C9_RRWaiting ==
    policy = "RR" =>
        \A i \in 1..Len(result) :
            result[i].waiting =
                CompletionTime(result[i].processID) - result[i].arrival - result[i].burst

\* ----------------------------------------------------------------- C10
\* C10: at the end of a run total_response is the sum over all processes of
\* (tick of first dispatch - arrival), each process counted once.
C10_Response == pc = "done" => total_response = SumResponse(n)

\* ----------------------------------------------------------------- C11
\* the input spec.md 7 calls invalid
InvalidInput ==
    \/ n <= 0
    \/ \E i \in 1..n : p[i].burst <= 0 \/ p[i].arrival < 0
    \/ (policy = "RR" /\ q <= 0)

\* C11: a run on invalid input ends in an error before the first tick: the
\* clock is never advanced, nothing is dispatched or collected, and the
\* function does not return as if the run had succeeded.
C11_FailFast ==
    InvalidInput =>
        /\ time = 0
        /\ temp = NULL
        /\ log = <<>>
        /\ result = <<>>
        /\ pc # "done"

\* ----------------------------------------------------------------- C12
\* C12: on P0(0,5), P1(1,3), P2(2,8) FCFS terminates at tick 16 with
\* completion order P0, P1, P2, waiting times 0, 4, 6, turnaround times
\* 5, 7, 14, total_waiting = 10 and total_turnaround = 26.
C12_FCFSScenario ==
    (policy = "FCFS" /\ Stopped) =>
        /\ pc = "done"
        /\ time = 16
        /\ Ids(result) = <<1, 2, 3>>
        /\ [i \in 1..3 |-> result[i].waiting] = <<0, 4, 6>>
        /\ [i \in 1..3 |-> Reported(result[i])] = <<5, 7, 14>>
        /\ total_waiting = 10
        /\ total_turnaround = 26

\* ----------------------------------------------------------------- C13
\* C13: after the admission step of tick t no record with arrival <= t is
\* left in the pending queue: once the tick is over (the clock reads t + 1)
\* every record still in pre arrives at the clock value or later; and a
\* record is admitted at its own arrival tick.
C13_AdmissionComplete ==
    /\ \A i \in 1..Len(pre) : pre[i].arrival >= time
    /\ \A i \in 1..Len(log) : log[i].k = "arrival" => log[i].at = p[log[i].id].arrival

\* ----------------------------------------------------------------- C14
\* C14: in RR no process executes more than q consecutive ticks in one
\* dispatch, q being the fourth parameter.
C14_QuantumCap ==
    policy = "RR" =>
        /\ temp # NULL => temp[1].execute <= q
        /\ \A i \in 1..Len(result) : result[i].execute <= q

\* ----------------------------------------------------------------- C15
\* C15: on valid input no policy calls peek or dequeue on an empty queue.
C15_NoEmptyPeek == pc # "EmptyQueue"

\* ----------------------------------------------------------------- C16
\* the processIDs held by the pending queue, the ready queue, the CPU slot
\* and the results, one entry per record held
Owned == Ids(pre) \o Ids(ready) \o Ids(temp) \o Ids(result)

\* C16: in every reachable state each of the n input records is in exactly
\* one of pending queue, ready queue, CPU slot and results, so the four
\* sizes add up to n.
C16_SingleOwnership ==
    /\ Len(pre) + Len(ready) + Len(temp) + Len(result) = n
    /\ {Owned[i] : i \in 1..Len(Owned)} = 1..n

\* an RR run after a preemption: the preempted record is back in the ready
\* queue and another one holds the CPU
C16_Witness ==
    /\ policy = "RR"
    /\ temp # NULL
    /\ Len(log) >= 2
    /\ log[Len(log) - 1].k = "timeout"
    /\ \E i \in 1..Len(ready) : ready[i].processID = log[Len(log) - 1].id

\* ----------------------------------------------------------------- C17
\* C17: in every policy the pending queue is in ascending order of arrival
\* time from before the first tick on, whatever the order of the input.
C17_PendingSorted ==
    \A i, j \in 1..Len(pre) : i < j => pre[i].arrival <= pre[j].arrival

\* ----------------------------------------------------------------- C18
\* C18: every write of a finished record uses an index below the capacity of
\* the result array (5 in SJF and RR), for any n: the array never holds
\* more records than its capacity.
C18_ResultFits ==
    policy \in {"SJF", "RR"} =>
        /\ Len(result) <= ResultCapacity
        /\ pc # "ResultOverflow"

\* ----------------------------------------------------------------- C19
\* C19: in RR every write gantt[time] happens with 0 <= time < t: the clock,
\* which RR advances only in that write, never exceeds t, and no write falls
\* outside the buffer.
C19_GanttFits ==
    policy = "RR" =>
        /\ time <= t
        /\ pc # "GanttOverflow"

C20_IdleTick == policy = "RR" /\ pc = "EmptyQueue" /\ temp = NULL /\ ready = <<>>

====
